---- MODULE Spec2Model ----
(***************************************************************************)
(* Model of the rust-preprocessor: document segmentation (document.rs),    *)
(* entity extraction (entities.rs) and the writers (output.rs).            *)
(*                                                                         *)
(* A Rust String is a sequence of one-character strings.  The inputs are   *)
(* ASCII; "\n" is the line terminator.                                     *)
(***************************************************************************)
EXTENDS Integers, Sequences, FiniteSets, TLC

VARIABLES
    pc,         \* position of the run: which call comes next
    text,       \* the input text (content)
    doc_type,   \* the input doc_type
    doc,        \* the ProcessedDocument of document::process
    acc,        \* the entity list of entities::extract before deduplication
    entities,   \* the entity list entities::extract returns
    csv,        \* the records write_csv hands to the CSV writer
    run,        \* 1 for the first run on the input, 2 for the second
    prev,       \* the first run's results, kept for comparison
    graph       \* the rows write_graph_format writes to nodes.csv and edges.csv

\* ------------------------------------------------------------------ chars

UpperSeq == <<"A","B","C","D","E","F","G","H","I","J","K","L","M","N","O","P","Q","R","S","T","U","V","W","X","Y","Z">>  \* 'ABCDEFGHIJKLMNOPQRSTUVWXYZ'
LowerSeq == <<"a","b","c","d","e","f","g","h","i","j","k","l","m","n","o","p","q","r","s","t","u","v","w","x","y","z">>  \* 'abcdefghijklmnopqrstuvwxyz'
DigitSeq == <<"0","1","2","3","4","5","6","7","8","9">>  \* '0123456789'

Range(f) == {f[i] : i \in DOMAIN f}

UpperSet == Range(UpperSeq)
LowerSet == Range(LowerSeq)
DigitSet == Range(DigitSeq)
AlphaSet == UpperSet \cup LowerSet
\* White_Space, as char::is_whitespace and the regex class \s (ASCII part)
WsSet == {" ", "\t", "\n", "\r", "\f"}

\* the lower-case letter of each upper-case letter, and the reverse
LowerOf ==
    "A" :> "a" @@ "B" :> "b" @@ "C" :> "c" @@ "D" :> "d" @@ "E" :> "e" @@
    "F" :> "f" @@ "G" :> "g" @@ "H" :> "h" @@ "I" :> "i" @@ "J" :> "j" @@
    "K" :> "k" @@ "L" :> "l" @@ "M" :> "m" @@ "N" :> "n" @@ "O" :> "o" @@
    "P" :> "p" @@ "Q" :> "q" @@ "R" :> "r" @@ "S" :> "s" @@ "T" :> "t" @@
    "U" :> "u" @@ "V" :> "v" @@ "W" :> "w" @@ "X" :> "x" @@ "Y" :> "y" @@
    "Z" :> "z"

UpperOf ==
    "a" :> "A" @@ "b" :> "B" @@ "c" :> "C" @@ "d" :> "D" @@ "e" :> "E" @@
    "f" :> "F" @@ "g" :> "G" @@ "h" :> "H" @@ "i" :> "I" @@ "j" :> "J" @@
    "k" :> "K" @@ "l" :> "L" @@ "m" :> "M" @@ "n" :> "N" @@ "o" :> "O" @@
    "p" :> "P" @@ "q" :> "Q" @@ "r" :> "R" @@ "s" :> "S" @@ "t" :> "T" @@
    "u" :> "U" @@ "v" :> "V" @@ "w" :> "W" @@ "x" :> "X" @@ "y" :> "Y" @@
    "z" :> "Z"

\* char::to_lowercase / char::to_uppercase on ASCII
LowerChar(c) == IF c \in UpperSet THEN LowerOf[c] ELSE c
UpperChar(c) == IF c \in LowerSet THEN UpperOf[c] ELSE c

\* a function on 1..n as the tuple of its values
Tup(f) == f \o <<>>

\* str::to_lowercase, str::to_uppercase
to_lowercase(s) == Tup([i \in 1..Len(s) |-> LowerChar(s[i])])
to_uppercase(s) == Tup([i \in 1..Len(s) |-> UpperChar(s[i])])

\* ---------------------------------------------------------------- strings

RECURSIVE TrimStart(_)
TrimStart(s) ==
    IF s # <<>> /\ Head(s) \in WsSet THEN TrimStart(Tail(s)) ELSE s

RECURSIVE TrimEnd(_)
TrimEnd(s) ==
    IF s # <<>> /\ s[Len(s)] \in WsSet THEN TrimEnd(SubSeq(s, 1, Len(s) - 1)) ELSE s

\* str::trim
trim(s) == TrimEnd(TrimStart(s))

\* str::starts_with
starts_with(s, p) == Len(s) >= Len(p) /\ SubSeq(s, 1, Len(p)) = p

\* str::strip_prefix: <<>> is None, <<rest>> is Some(rest)
strip_prefix(s, p) ==
    IF starts_with(s, p) THEN <<SubSeq(s, Len(p) + 1, Len(s))>> ELSE <<>>

\* str::contains(&str)
contains(s, p) ==
    \/ p = <<>>
    \/ \E i \in 1..(Len(s) - Len(p) + 1) :
          s[i] = p[1] /\ SubSeq(s, i, i + Len(p) - 1) = p

\* the positions a..b in order
Positions(a, b) == Tup([k \in 1..(b - a + 1) |-> a + k - 1])

\* str::split on a set of separator characters: the pieces between the
\* separators, empty ones included
split(s, seps) ==
    LET at == SelectSeq(Positions(1, Len(s)), LAMBDA i : s[i] \in seps)
        n == Len(at)
    IN  Tup([k \in 1..(n + 1) |->
                SubSeq(s, IF k = 1 THEN 1 ELSE at[k - 1] + 1,
                          IF k = n + 1 THEN Len(s) ELSE at[k] - 1)])

\* str::lines: split on "\n", a trailing "\r" of each line removed, and no
\* final empty line after a trailing "\n"
StripCr(l) ==
    IF l # <<>> /\ l[Len(l)] = "\r" THEN SubSeq(l, 1, Len(l) - 1) ELSE l

lines(s) ==
    LET parts == split(s, {"\n"})
        kept == IF parts[Len(parts)] = <<>>
                THEN SubSeq(parts, 1, Len(parts) - 1) ELSE parts
    IN  Tup([i \in 1..Len(kept) |-> StripCr(kept[i])])

\* [T]::join / Vec<String>::join
RECURSIVE join(_, _)
join(ss, sep) ==
    IF ss = <<>> THEN <<>>
    ELSE IF Len(ss) = 1 THEN ss[1]
    ELSE ss[1] \o sep \o join(Tail(ss), sep)

\* Iterator::take
take(s, n) == SubSeq(s, 1, IF Len(s) < n THEN Len(s) ELSE n)

\* ------------------------------------------------------------------ regex
\* A pattern is a sequence of items, matched with the regex crate's
\* leftmost-first (backtracking-order) semantics.

\* a character class repeated min..max times, greedy (max = -1: unbounded)
Cls(set, min, max) == [k |-> "cls", set |-> set, neg |-> FALSE, min |-> min, max |-> max]
\* a negated class
NotCls(set, min, max) == [k |-> "cls", set |-> set, neg |-> TRUE, min |-> min, max |-> max]
One(set) == Cls(set, 1, 1)
Star(set) == Cls(set, 0, -1)
Plus(set) == Cls(set, 1, -1)
Opt(set) == Cls(set, 0, 1)
\* "." (any character but "\n") repeated once or more
DotPlus == NotCls({"\n"}, 1, -1)
\* a literal string
Lit(s) == Tup([i \in 1..Len(s) |-> One({s[i]})])
\* a literal string under (?i)
LitI(s) == Tup([i \in 1..Len(s) |-> One({LowerChar(s[i]), UpperChar(s[i])})])
\* a class under (?i)
FoldCase(set) == set \cup {LowerChar(c) : c \in set} \cup {UpperChar(c) : c \in set}
\* alternation: the alternatives (each a pattern), tried in order
Alt(alts) == [k |-> "alt", alts |-> alts]
\* capture group n around a pattern
Grp(n, p) == <<[k |-> "open", n |-> n]>> \o p \o <<[k |-> "close", n |-> n]>>
\* ^ and $ (m: the (?m) flag)
Bol(m) == [k |-> "bol", m |-> m]
Eol(m) == [k |-> "eol", m |-> m]

InCls(it, c) == IF it.neg THEN c \notin it.set ELSE c \in it.set

\* the length of the longest run of it's class at s[i..], at most it.max,
\* given that n characters are in the run already
RunLen(it, s, i, n) ==
    LET left == Len(s) - i + 1
        lim == IF it.max # -1 /\ it.max < left THEN it.max ELSE left
        out == SelectSeq(Positions(n + 1, lim), LAMBDA k : ~InCls(it, s[i + k - 1]))
    IN  IF lim <= n THEN n
        ELSE IF out = <<>> THEN lim
        ELSE out[1] - 1

NoMatch == [ok |-> FALSE]
NoCaps == <<<<0, 0>>, <<0, 0>>>>

RECURSIVE MatchAt(_, _, _, _), TryLen(_, _, _, _, _, _), TryAlt(_, _, _, _, _, _)
\* the match of pattern p at s[i..] the engine prefers, or NoMatch
MatchAt(p, s, i, caps) ==
    IF p = <<>> THEN [ok |-> TRUE, e |-> i, c |-> caps]
    ELSE LET it == Head(p)
             rest == Tail(p)
         IN  CASE it.k = "cls" -> TryLen(it, rest, s, i, caps, RunLen(it, s, i, 0))
               [] it.k = "alt" -> TryAlt(it.alts, rest, s, i, caps, 1)
               [] it.k = "open" ->
                    MatchAt(rest, s, i, [caps EXCEPT ![it.n] = <<i, i>>])
               [] it.k = "close" ->
                    MatchAt(rest, s, i, [caps EXCEPT ![it.n] = <<caps[it.n][1], i>>])
               [] it.k = "bol" ->
                    IF i = 1 \/ (it.m /\ s[i - 1] = "\n")
                    THEN MatchAt(rest, s, i, caps) ELSE NoMatch
               [] it.k = "eol" ->
                    IF i = Len(s) + 1 \/ (it.m /\ s[i] = "\n")
                    THEN MatchAt(rest, s, i, caps) ELSE NoMatch

\* greedy repetition: the longest run first, then shorter ones
TryLen(it, rest, s, i, caps, n) ==
    IF n = it.min THEN MatchAt(rest, s, i + n, caps)
    ELSE LET tries == Tup([k \in 1..(n - it.min + 1) |->
                              MatchAt(rest, s, i + n - k + 1, caps)])
             found == SelectSeq(tries, LAMBDA r : r.ok)
         IN  IF found = <<>> THEN NoMatch ELSE found[1]

\* alternation: the first alternative that lets the rest match
TryAlt(alts, rest, s, i, caps, j) ==
    IF j > Len(alts) THEN NoMatch
    ELSE LET r == MatchAt(alts[j] \o rest, s, i, caps)
         IN  IF r.ok THEN r ELSE TryAlt(alts, rest, s, i, caps, j + 1)

\* no match of p starts at s[i..] when its first item needs a character of a
\* class that s[i] is not in
CanStart(p, s, i) ==
    \/ p = <<>>
    \/ Head(p).k # "cls"
    \/ Head(p).min = 0
    \/ (i <= Len(s) /\ InCls(Head(p), s[i]))

\* the leftmost match starting at or after position i: the start positions
\* are tried sixteen at a time
RECURSIVE FindFrom(_, _, _)
FindFrom(p, s, i) ==
    IF i > Len(s) + 1 THEN NoMatch
    ELSE LET hi == IF i + 15 > Len(s) + 1 THEN Len(s) + 1 ELSE i + 15
             tries == Tup([k \in 1..(hi - i + 1) |->
                              IF CanStart(p, s, i + k - 1)
                              THEN [b |-> i + k - 1] @@ MatchAt(p, s, i + k - 1, NoCaps)
                              ELSE NoMatch])
             found == SelectSeq(tries, LAMBDA r : r.ok)
         IN  IF found = <<>> THEN FindFrom(p, s, hi + 1)
             ELSE [ok |-> TRUE, b |-> found[1].b, e |-> found[1].e, c |-> found[1].c]

\* Regex::captures: a pattern that starts with ^ can match at the start only
captures(p, s) ==
    IF p # <<>> /\ Head(p).k = "bol" /\ ~Head(p).m
    THEN LET r == MatchAt(p, s, 1, NoCaps)
         IN  IF r.ok THEN [ok |-> TRUE, b |-> 1, e |-> r.e, c |-> r.c] ELSE NoMatch
    ELSE FindFrom(p, s, 1)

\* Regex::is_match
is_match(p, s) == captures(p, s).ok

\* Captures::len: the groups of the pattern, and one for the whole match
captures_len(p) == 1 + Cardinality({i \in DOMAIN p : p[i].k = "open"})

\* &captures[n]
Cap(m, s, n) == SubSeq(s, m.c[n][1], m.c[n][2] - 1)

\* Regex::captures_iter: the successive non-overlapping matches
RECURSIVE CapturesIterFrom(_, _, _)
CapturesIterFrom(p, s, i) ==
    LET r == FindFrom(p, s, i)
    IN  IF ~r.ok THEN <<>>
        ELSE <<r>> \o CapturesIterFrom(p, s, IF r.e = r.b THEN r.e + 1 ELSE r.e)

captures_iter(p, s) == CapturesIterFrom(p, s, 1)

\* ------------------------------------------------------------ document.rs

\* the first lines extract_title looks at
TitleScanLines == 10
\* a title line is shorter than this
TitleMaxLen == 100

None == <<>>
Some(v) == <<v>>

\* what one line gives as a title: None when the line is skipped
TitleOfLine(raw) ==
    LET line == trim(raw)
    IN  IF line = <<>> THEN None
        ELSE IF strip_prefix(line, <<"T","i","t","l","e",":">>) # None  \* 'Title:'
             THEN Some(trim(strip_prefix(line, <<"T","i","t","l","e",":">>)[1]))  \* 'Title:'
        ELSE IF strip_prefix(line, <<"N","a","m","e",":">>) # None  \* 'Name:'
             THEN Some(trim(strip_prefix(line, <<"N","a","m","e",":">>)[1]))  \* 'Name:'
        ELSE IF Len(line) < TitleMaxLen /\ line # to_uppercase(line)
                /\ ~contains(line, <<":">>)  \* ':'
             THEN Some(line)
        ELSE None

RECURSIVE FirstTitle(_)
FirstTitle(ls) ==
    IF ls = <<>> THEN None
    ELSE IF TitleOfLine(Head(ls)) # None THEN TitleOfLine(Head(ls))
    ELSE FirstTitle(Tail(ls))

\* the lines that are not blank
RECURSIVE non_blank(_)
non_blank(ls) ==
    IF ls = <<>> THEN <<>>
    ELSE (IF trim(Head(ls)) # <<>> THEN <<Head(ls)>> ELSE <<>>) \o non_blank(Tail(ls))

\* variant: the first lines, blank ones not counted
first_lines_non_blank(content) == take(non_blank(lines(content)), TitleScanLines)

first_lines(content) == take(lines(content), TitleScanLines)

extract_title(content) == FirstTitle(first_lines(content))

Roman == <<<<"I","I","I">>, <<"I","I">>, <<"I">>, <<"I","V">>, <<"V">>, <<"V","I","I","I">>, <<"V","I","I">>, <<"V","I">>, <<"I","X">>, <<"X">>>>  \* 'III' 'II' 'I' 'IV' 'V' 'VIII' 'VII' 'VI' 'IX' 'X'

\* the six header patterns, in the order they are tried, with their levels
section_patterns == <<
    [re |-> <<Bol(FALSE), Star(WsSet)>>
             \o Grp(1, <<Alt(Tup([i \in 1..Len(Roman) |-> Lit(Roman[i])]))>>)
             \o <<One({"."}), Plus(WsSet)>> \o Grp(2, <<DotPlus>>) \o <<Eol(FALSE)>>,
     level |-> 1],
    [re |-> <<Bol(FALSE), Star(WsSet)>>
             \o Grp(1, <<One(UpperSet), Plus(UpperSet \cup WsSet)>>)
             \o <<Star(WsSet), One({":"})>>,
     level |-> 1],
    [re |-> <<Bol(FALSE), Star(WsSet)>> \o Grp(1, <<One(UpperSet)>>)
             \o <<One({"."}), Plus(WsSet)>> \o Grp(2, <<DotPlus>>) \o <<Eol(FALSE)>>,
     level |-> 2],
    [re |-> <<Bol(FALSE), Star(WsSet)>> \o Grp(1, <<Plus(DigitSet)>>)
             \o <<One({"."}), Plus(WsSet)>> \o Grp(2, <<DotPlus>>) \o <<Eol(FALSE)>>,
     level |-> 2],
    [re |-> <<Bol(FALSE), Star(WsSet)>> \o Grp(1, <<One(LowerSet)>>)
             \o <<One({"."}), Plus(WsSet)>> \o Grp(2, <<DotPlus>>) \o <<Eol(FALSE)>>,
     level |-> 3],
    [re |-> <<Bol(FALSE), Star(WsSet)>>
             \o Grp(1, <<Plus(DigitSet), One({"."}), Plus(DigitSet)>>)
             \o <<Plus(WsSet)>> \o Grp(2, <<DotPlus>>) \o <<Eol(FALSE)>>,
     level |-> 3] >>

\* variant: the last pattern that matches wins: the loop without its break
RECURSIVE LastPattern(_, _)
LastPattern(line, n) ==
    IF n > Len(section_patterns) THEN 0
    ELSE LET later == LastPattern(line, n + 1)
         IN  IF later # 0 THEN later
             ELSE IF is_match(section_patterns[n].re, line) THEN n ELSE 0

\* the index of the first pattern that matches the line, 0 when none does
RECURSIVE FirstPattern(_, _)
FirstPattern(line, n) ==
    IF n > Len(section_patterns) THEN 0
    ELSE IF is_match(section_patterns[n].re, line) THEN n
    ELSE FirstPattern(line, n + 1)

Section(t, c, l) == [title |-> t, content |-> c, level |-> l]

\* variant: what follows the label of a single-group header starts the content
HeaderSectionKeepsRest(line, n) ==
    LET re == section_patterns[n].re
        m == captures(re, line)
    IN  IF captures_len(re) > 2
        THEN Section(Some(Cap(m, line, 1) \o <<" ">> \o Cap(m, line, 2)),  \* ' '
                     <<>>, section_patterns[n].level)
        ELSE Section(Some(Cap(m, line, 1)), trim(SubSeq(line, m.e, Len(line))),
                     section_patterns[n].level)

\* the section a header line opens, by the pattern n that matched it
HeaderSection(line, n) ==
    LET re == section_patterns[n].re
        m == captures(re, line)
    IN  Section(Some(IF captures_len(re) > 2
                     THEN Cap(m, line, 1) \o <<" ">> \o Cap(m, line, 2)  \* ' '
                     ELSE Cap(m, line, 1)),
                <<>>, section_patterns[n].level)

\* variant: a section is kept for its title alone
RetainedTitled(sec) == sec.title # None

\* variant: every section is kept
RetainedAlways(sec) == TRUE

\* variant: a section is kept for its content alone
RetainedWithContent(sec) == sec.content # <<>>

\* a section is pushed when it has content or a title
Retained(sec) == sec.content # <<>> \/ sec.title # None

\* variant: the loop without the push of the last section after it
RECURSIVE SectionLoopNoLast(_, _, _, _)
SectionLoopNoLast(ls, i, secs, cur) ==
    IF i > Len(ls) THEN secs
    ELSE LET line == trim(ls[i])
             n == FirstPattern(line, 1)
         IN  IF line = <<>> THEN SectionLoopNoLast(ls, i + 1, secs, cur)
             ELSE IF n # 0
             THEN SectionLoopNoLast(ls, i + 1,
                                    IF Retained(cur) THEN Append(secs, cur) ELSE secs,
                                    HeaderSection(line, n))
             ELSE SectionLoopNoLast(ls, i + 1, secs,
                                    [cur EXCEPT !.content =
                                        IF cur.content # <<>>
                                        THEN cur.content \o <<"\n">> \o line ELSE line])  \* '\n'

\* the loop of extract_sections over the lines from the i-th on
RECURSIVE SectionLoop(_, _, _, _)
SectionLoop(ls, i, secs, cur) ==
    IF i > Len(ls) THEN IF Retained(cur) THEN Append(secs, cur) ELSE secs
    ELSE LET line == trim(ls[i])
             n == FirstPattern(line, 1)
         IN  IF line = <<>> THEN SectionLoop(ls, i + 1, secs, cur)
             ELSE IF n # 0
             THEN SectionLoop(ls, i + 1,
                              IF Retained(cur) THEN Append(secs, cur) ELSE secs,
                              HeaderSection(line, n))
             ELSE SectionLoop(ls, i + 1, secs,
                              [cur EXCEPT !.content =
                                  IF cur.content # <<>>
                                  THEN cur.content \o <<"\n">> \o line ELSE line])  \* '\n'

extract_sections(content) ==
    SectionLoop(lines(content), 1, <<>>, Section(None, <<>>, 1))


\* std::collections::HashMap: a function from keys to values
EmptyMap == <<>>
insert(m, k, v) == [x \in (DOMAIN m) \cup {k} |-> IF x = k THEN v ELSE m[x]]
get(m, k) == IF k \in DOMAIN m THEN Some(m[k]) ELSE None

\* shared parts of the metadata patterns
Colon == <<Star(WsSet), One({":"}), Star(WsSet)>>
Ws1 == <<Plus(WsSet)>>
\* ([A-Z0-9-]+) under (?i)
IdValue == Grp(1, <<Plus(FoldCase(UpperSet \cup DigitSet \cup {"-"}))>>)
\* (\d{1,2}/\d{1,2}/\d{2,4})
DateValue == Grp(1, <<Cls(DigitSet, 1, 2), One({"/"}), Cls(DigitSet, 1, 2),
                      One({"/"}), Cls(DigitSet, 2, 4)>>)
\* ([A-Za-z\s]+)
WordsValue == Grp(1, <<Plus(AlphaSet \cup WsSet)>>)
\* \$?(\d+(?:\.\d{2})?)
MoneyValue == <<Opt({"$"})>>
              \o Grp(1, <<Plus(DigitSet),
                          Alt(<< <<One({"."}), Cls(DigitSet, 2, 2)>>, <<>> >>)>>)

Field(re, key) == [re |-> re, key |-> key]

\* the (pattern, field) pairs of each doc_type, in order
plan_patterns == <<
    Field(LitI(<<"P","l","a","n">>) \o Ws1 \o LitI(<<"I","D">>) \o Colon \o IdValue, <<"p","l","a","n","_","i","d">>),  \* 'Plan' 'ID' 'plan_id'
    Field(LitI(<<"E","f","f","e","c","t","i","v","e">>) \o Ws1 \o LitI(<<"D","a","t","e">>) \o Colon \o DateValue,  \* 'Effective' 'Date'
          <<"e","f","f","e","c","t","i","v","e","_","d","a","t","e">>),  \* 'effective_date'
    Field(LitI(<<"C","o","v","e","r","a","g","e">>) \o Ws1 \o LitI(<<"T","y","p","e">>) \o Colon \o WordsValue,  \* 'Coverage' 'Type'
          <<"c","o","v","e","r","a","g","e","_","t","y","p","e">>),  \* 'coverage_type'
    Field(LitI(<<"P","r","e","m","i","u","m">>) \o Colon \o MoneyValue, <<"p","r","e","m","i","u","m">>) >>  \* 'Premium' 'premium'

policy_patterns == <<
    Field(LitI(<<"P","o","l","i","c","y">>) \o Ws1 \o LitI(<<"N","u","m","b","e","r">>) \o Colon \o IdValue,  \* 'Policy' 'Number'
          <<"p","o","l","i","c","y","_","n","u","m","b","e","r">>),  \* 'policy_number'
    Field(LitI(<<"P","o","l","i","c","y","h","o","l","d","e","r">>) \o Colon \o WordsValue, <<"p","o","l","i","c","y","h","o","l","d","e","r">>),  \* 'Policyholder' 'policyholder'
    Field(LitI(<<"I","s","s","u","e">>) \o Ws1 \o LitI(<<"D","a","t","e">>) \o Colon \o DateValue, <<"i","s","s","u","e","_","d","a","t","e">>),  \* 'Issue' 'Date' 'issue_date'
    Field(LitI(<<"E","x","p","i","r","a","t","i","o","n">>) \o Ws1 \o LitI(<<"D","a","t","e">>) \o Colon \o DateValue,  \* 'Expiration' 'Date'
          <<"e","x","p","i","r","a","t","i","o","n","_","d","a","t","e">>) >>  \* 'expiration_date'

claim_patterns == <<
    Field(LitI(<<"C","l","a","i","m">>) \o Ws1 \o LitI(<<"N","u","m","b","e","r">>) \o Colon \o IdValue, <<"c","l","a","i","m","_","n","u","m","b","e","r">>),  \* 'Claim' 'Number' 'claim_number'
    Field(LitI(<<"D","a","t","e">>) \o Ws1 \o LitI(<<"o","f">>) \o Ws1 \o LitI(<<"S","e","r","v","i","c","e">>)  \* 'Date' 'of' 'Service'
          \o Colon \o DateValue, <<"s","e","r","v","i","c","e","_","d","a","t","e">>),  \* 'service_date'
    Field(LitI(<<"P","r","o","v","i","d","e","r">>) \o Colon \o WordsValue, <<"p","r","o","v","i","d","e","r">>),  \* 'Provider' 'provider'
    Field(LitI(<<"A","m","o","u","n","t">>) \o Colon \o MoneyValue, <<"a","m","o","u","n","t">>),  \* 'Amount' 'amount'
    Field(LitI(<<"S","t","a","t","u","s">>) \o Colon \o WordsValue, <<"s","t","a","t","u","s">>) >>  \* 'Status' 'status'

generic_patterns == <<
    Field(LitI(<<"I","D">>) \o Colon \o IdValue, <<"i","d">>),  \* 'ID' 'id'
    Field(LitI(<<"D","a","t","e">>) \o Colon \o DateValue, <<"d","a","t","e">>),  \* 'Date' 'date'
    Field(LitI(<<"N","a","m","e">>) \o Colon \o WordsValue, <<"n","a","m","e">>) >>  \* 'Name' 'name'

metadata_patterns(dt) ==
    CASE dt = <<"p","l","a","n">> -> plan_patterns  \* 'plan'
      [] dt = <<"p","o","l","i","c","y">> -> policy_patterns  \* 'policy'
      [] dt = <<"c","l","a","i","m">> -> claim_patterns  \* 'claim'
      [] OTHER -> generic_patterns

RECURSIVE MetadataLoop(_, _, _, _)
MetadataLoop(content, pats, i, metadata) ==
    IF i > Len(pats) THEN metadata
    ELSE LET m == captures(pats[i].re, content)
         IN  MetadataLoop(content, pats, i + 1,
                 IF m.ok /\ captures_len(pats[i].re) > 1
                 THEN insert(metadata, pats[i].key, trim(Cap(m, content, 1)))
                 ELSE metadata)

extract_metadata(content, dt) ==
    MetadataLoop(content, metadata_patterns(dt), 1, EmptyMap)

\* document::process
process(content, dt) ==
    [doc_type |-> dt,
     title |-> extract_title(content),
     sections |-> extract_sections(content),
     metadata |-> extract_metadata(content, dt)]

\* ------------------------------------------------------------ entities.rs

Entity(t, n, d, r, a) ==
    [entity_type |-> t, name |-> n, description |-> d, related |-> r, attributes |-> a]

unwrap_or(o, v) == IF o = None THEN v ELSE o[1]

\* the text of a section the extractors scan
section_text(section) ==
    IF section.title # None
    THEN section.title[1] \o <<" ">> \o section.content  \* ' '
    ELSE section.content

any_keyword(kws, s) == \E i \in DOMAIN kws : contains(s, kws[i])

description_titles == <<<<"o","v","e","r","v","i","e","w">>, <<"d","e","s","c","r","i","p","t","i","o","n">>, <<"s","u","m","m","a","r","y">>>>  \* 'overview' 'description' 'summary'

\* the content of the first section titled as an overview, description or summary
RECURSIVE find_description(_, _)
find_description(secs, i) ==
    IF i > Len(secs) THEN None
    ELSE IF secs[i].title # None
            /\ any_keyword(description_titles, to_lowercase(secs[i].title[1]))
         THEN Some(secs[i].content)
    ELSE find_description(secs, i + 1)

\* one entity of type t per section whose text holds a keyword
RECURSIVE section_entities(_, _, _, _, _)
section_entities(secs, i, kws, t, fallback) ==
    IF i > Len(secs) THEN <<>>
    ELSE (IF any_keyword(kws, to_lowercase(section_text(secs[i])))
          THEN <<Entity(t, unwrap_or(secs[i].title, fallback),
                        Some(secs[i].content), <<>>, EmptyMap)>>
          ELSE <<>>)
         \o section_entities(secs, i + 1, kws, t, fallback)

coverage_keywords == <<<<"c","o","v","e","r","a","g","e">>, <<"c","o","v","e","r","s">>, <<"c","o","v","e","r","e","d">>, <<"b","e","n","e","f","i","t">>, <<"b","e","n","e","f","i","t","s">>>>  \* 'coverage' 'covers' 'covered' 'benefit' 'benefits'

\* variant: the keyword is looked for in the section's title alone
RECURSIVE extract_coverage_by_title(_)
extract_coverage_by_title(d) ==
    IF d.sections = <<>> THEN <<>>
    ELSE LET sec == Head(d.sections)
         IN  (IF sec.title # None /\ any_keyword(coverage_keywords, to_lowercase(sec.title[1]))
              THEN <<Entity(<<"C","o","v","e","r","a","g","e">>, sec.title[1], Some(sec.content), <<>>, EmptyMap)>>  \* 'Coverage'
              ELSE <<>>)
             \o extract_coverage_by_title([d EXCEPT !.sections = Tail(d.sections)])

extract_coverage(d) ==
    section_entities(d.sections, 1, coverage_keywords, <<"C","o","v","e","r","a","g","e">>, <<"C","o","v","e","r","a","g","e">>)  \* 'Coverage' 'Coverage'

condition_keywords ==
    <<<<"c","o","n","d","i","t","i","o","n">>, <<"c","o","n","d","i","t","i","o","n","s">>, <<"r","e","q","u","i","r","e","m","e","n","t">>, <<"r","e","q","u","i","r","e","m","e","n","t","s">>,  \* 'condition' 'conditions' 'requirement' 'requirements'
      <<"p","r","e","r","e","q","u","i","s","i","t","e">>, <<"p","r","e","r","e","q","u","i","s","i","t","e","s">>>>  \* 'prerequisite' 'prerequisites'

limitation_keywords ==
    <<<<"l","i","m","i","t","a","t","i","o","n">>, <<"l","i","m","i","t","a","t","i","o","n","s">>, <<"l","i","m","i","t">>, <<"l","i","m","i","t","s">>, <<"r","e","s","t","r","i","c","t","e","d">>,  \* 'limitation' 'limitations' 'limit' 'limits' 'restricted'
      <<"r","e","s","t","r","i","c","t","i","o","n">>, <<"r","e","s","t","r","i","c","t","i","o","n","s">>>>  \* 'restriction' 'restrictions'

RECURSIVE conditions_loop(_, _)
conditions_loop(secs, i) ==
    IF i > Len(secs) THEN <<>>
    ELSE section_entities(<<secs[i]>>, 1, condition_keywords, <<"C","o","n","d","i","t","i","o","n">>, <<"C","o","n","d","i","t","i","o","n">>)  \* 'Condition' 'Condition'
         \o section_entities(<<secs[i]>>, 1, limitation_keywords, <<"L","i","m","i","t","a","t","i","o","n">>, <<"L","i","m","i","t","a","t","i","o","n">>)  \* 'Limitation' 'Limitation'
         \o conditions_loop(secs, i + 1)

extract_conditions_and_limitations(d) == conditions_loop(d.sections, 1)

extract_plan_entities(d) ==
    <<Entity(<<"P","l","a","n">>, unwrap_or(d.title, <<"U","n","n","a","m","e","d"," ","P","l","a","n">>),  \* 'Plan' 'Unnamed Plan'
             find_description(d.sections, 1), <<>>, d.metadata)>>
    \o extract_coverage(d)

extract_policy_entities(d) ==
    <<Entity(<<"P","o","l","i","c","y">>, unwrap_or(d.title, <<"U","n","n","a","m","e","d"," ","P","o","l","i","c","y">>),  \* 'Policy' 'Unnamed Policy'
             find_description(d.sections, 1), <<>>, d.metadata)>>
    \o extract_conditions_and_limitations(d)

\* the index of the first entity of type t, 0 when there is none
FirstOfType(es, t) ==
    IF \E i \in DOMAIN es : es[i].entity_type = t
    THEN CHOOSE i \in DOMAIN es :
            /\ es[i].entity_type = t
            /\ \A j \in 1..(i - 1) : es[j].entity_type # t
    ELSE 0

\* variant: the provider is not added to the claim's related list
extract_claim_entities_unlinked(d) ==
    LET claim_name == unwrap_or(get(d.metadata, <<"c","l","a","i","m","_","n","u","m","b","e","r">>), <<"U","n","n","a","m","e","d"," ","C","l","a","i","m">>)  \* 'claim_number' 'Unnamed Claim'
        claim_entity == Entity(<<"C","l","a","i","m">>, claim_name, None, <<>>, d.metadata)  \* 'Claim'
        provider == get(d.metadata, <<"p","r","o","v","i","d","e","r">>)  \* 'provider'
    IN  IF provider # None
        THEN <<claim_entity,
               Entity(<<"P","r","o","v","i","d","e","r">>, provider[1], None, <<claim_name>>, EmptyMap)>>  \* 'Provider'
        ELSE <<claim_entity>>

extract_claim_entities(d) ==
    LET claim_name == unwrap_or(get(d.metadata, <<"c","l","a","i","m","_","n","u","m","b","e","r">>), <<"U","n","n","a","m","e","d"," ","C","l","a","i","m">>)  \* 'claim_number' 'Unnamed Claim'
        claim_entity == Entity(<<"C","l","a","i","m">>, claim_name, None, <<>>, d.metadata)  \* 'Claim'
        provider == get(d.metadata, <<"p","r","o","v","i","d","e","r">>)  \* 'provider'
    IN  IF provider # None
        THEN LET es == <<claim_entity,
                         Entity(<<"P","r","o","v","i","d","e","r">>, provider[1], None, <<claim_name>>, EmptyMap)>>  \* 'Provider'
                 c == FirstOfType(es, <<"C","l","a","i","m">>)  \* 'Claim'
             IN  IF c # 0
                 THEN [es EXCEPT ![c].related = Append(@, provider[1])]
                 ELSE es
        ELSE <<claim_entity>>

\* variant: the metadata is not copied into the attributes
extract_generic_entities_bare(d) ==
    <<Entity(<<"D","o","c","u","m","e","n","t">>, unwrap_or(d.title, <<"U","n","n","a","m","e","d"," ","D","o","c","u","m","e","n","t">>), None, <<>>, EmptyMap)>>  \* 'Document' 'Unnamed Document'

extract_generic_entities(d) ==
    <<Entity(<<"D","o","c","u","m","e","n","t">>, unwrap_or(d.title, <<"U","n","n","a","m","e","d"," ","D","o","c","u","m","e","n","t">>), None, <<>>, d.metadata)>>  \* 'Document' 'Unnamed Document'

benefit_keywords ==
    <<<<"b","e","n","e","f","i","t">>, <<"b","e","n","e","f","i","t","s">>, <<"c","o","v","e","r","e","d">>, <<"c","o","v","e","r","a","g","e">>, <<"c","o","v","e","r","s">>, <<"i","n","c","l","u","d","e","d">>,  \* 'benefit' 'benefits' 'covered' 'coverage' 'covers' 'included'
      <<"i","n","c","l","u","d","e","s">>>>  \* 'includes'

exclusion_keywords ==
    <<<<"e","x","c","l","u","s","i","o","n">>, <<"e","x","c","l","u","s","i","o","n","s">>, <<"e","x","c","l","u","d","e","d">>, <<"n","o","t"," ","c","o","v","e","r","e","d">>, <<"n","o","t"," ","i","n","c","l","u","d","e">>,  \* 'exclusion' 'exclusions' 'excluded' 'not covered' 'not include'
      <<"l","i","m","i","t","a","t","i","o","n">>, <<"l","i","m","i","t","a","t","i","o","n","s">>>>  \* 'limitation' 'limitations'

\* (?::|\s-\s)
Separator == <<Alt(<< <<One({":"})>>, <<One(WsSet), One({"-"}), One(WsSet)>> >>)>>

\* the bullet and the numbered list-item patterns (benefit_patterns,
\* exclusion_patterns); the inputs are ASCII, so the bullet character of the
\* first class, which is not ASCII, never occurs
item_patterns == <<
    <<Bol(TRUE), Plus(WsSet \cup {"-", "*"})>> \o Grp(1, <<NotCls({":"}, 1, -1)>>)
        \o Separator \o Grp(2, <<DotPlus>>) \o <<Eol(TRUE)>>,
    <<Bol(TRUE), Star(WsSet), Plus(DigitSet), One({"."}), Plus(WsSet)>>
        \o Grp(1, <<NotCls({":"}, 1, -1)>>)
        \o Separator \o Grp(2, <<DotPlus>>) \o <<Eol(TRUE)>> >>

\* variant: only the first pattern is asked
pattern_found_first(patterns, s) == is_match(patterns[1], s)

pattern_found_entities(patterns, s) ==
    \E i \in DOMAIN patterns : is_match(patterns[i], s)

\* the entities of the matches of one pattern in a section's text
structured_of(p, s, t) ==
    LET ms == captures_iter(p, s)
    IN  Tup([i \in 1..Len(ms) |->
                Entity(t, trim(Cap(ms[i], s, 1)), Some(trim(Cap(ms[i], s, 2))),
                       <<>>, EmptyMap)])

RECURSIVE structured_entities(_, _, _, _)
structured_entities(patterns, i, s, t) ==
    IF i > Len(patterns) THEN <<>>
    ELSE (IF captures_len(patterns[i]) > 2 THEN structured_of(patterns[i], s, t) ELSE <<>>)
         \o structured_entities(patterns, i + 1, s, t)

\* the sentences of a text: split on "." and "\n", trimmed, empty ones dropped
RECURSIVE non_empty(_)
non_empty(ss) ==
    IF ss = <<>> THEN <<>>
    ELSE (IF trim(Head(ss)) # <<>> THEN <<trim(Head(ss))>> ELSE <<>>)
         \o non_empty(Tail(ss))

sentences(s) == non_empty(split(s, {".", "\n"}))

RECURSIVE fallback_loop(_, _, _)
fallback_loop(ss, kws, t) ==
    IF ss = <<>> THEN <<>>
    ELSE (IF any_keyword(kws, to_lowercase(Head(ss)))
          THEN <<Entity(t, Head(ss), None, <<>>, EmptyMap)>> ELSE <<>>)
         \o fallback_loop(Tail(ss), kws, t)

fallback_entities(s, kws, t) == fallback_loop(sentences(s), kws, t)

\* what one section gives extract_benefits (extract_exclusions)
items_of_section(section, kws, t) ==
    LET s == section_text(section)
    IN  IF any_keyword(kws, to_lowercase(s))
        THEN structured_entities(item_patterns, 1, s, t)
             \o (IF ~pattern_found_entities(item_patterns, s)
                 THEN fallback_entities(s, kws, t) ELSE <<>>)
        ELSE <<>>

RECURSIVE items_loop(_, _, _, _)
items_loop(secs, i, kws, t) ==
    IF i > Len(secs) THEN <<>>
    ELSE items_of_section(secs[i], kws, t) \o items_loop(secs, i + 1, kws, t)

extract_benefits(d) == items_loop(d.sections, 1, benefit_keywords, <<"B","e","n","e","f","i","t">>)  \* 'Benefit'
extract_exclusions(d) == items_loop(d.sections, 1, exclusion_keywords, <<"E","x","c","l","u","s","i","o","n">>)  \* 'Exclusion'

procedures == <<
    <<"s","u","r","g","e","r","y">>, <<"c","o","n","s","u","l","t","a","t","i","o","n">>, <<"e","x","a","m","i","n","a","t","i","o","n">>, <<"x","-","r","a","y">>, <<"m","r","i">>, <<"c","t"," ","s","c","a","n">>,  \* 'surgery' 'consultation' 'examination' 'x-ray' 'mri' 'ct scan'
    <<"u","l","t","r","a","s","o","u","n","d">>, <<"b","l","o","o","d"," ","t","e","s","t">>, <<"v","a","c","c","i","n","a","t","i","o","n">>, <<"i","m","m","u","n","i","z","a","t","i","o","n">>, <<"t","h","e","r","a","p","y">>,  \* 'ultrasound' 'blood test' 'vaccination' 'immunization' 'therapy'
    <<"t","r","e","a","t","m","e","n","t">>, <<"s","c","r","e","e","n","i","n","g">>, <<"c","h","e","c","k","u","p">>, <<"p","h","y","s","i","c","a","l">>, <<"d","e","n","t","a","l"," ","c","l","e","a","n","i","n","g">>,  \* 'treatment' 'screening' 'checkup' 'physical' 'dental cleaning'
    <<"f","i","l","l","i","n","g">>, <<"r","o","o","t"," ","c","a","n","a","l">>, <<"c","r","o","w","n">>, <<"p","r","e","s","c","r","i","p","t","i","o","n">>, <<"m","e","d","i","c","a","t","i","o","n">>,  \* 'filling' 'root canal' 'crown' 'prescription' 'medication'
    <<"i","n","j","e","c","t","i","o","n">>, <<"i","n","f","u","s","i","o","n">>, <<"d","i","a","l","y","s","i","s">>, <<"t","r","a","n","s","p","l","a","n","t">>, <<"r","e","h","a","b","i","l","i","t","a","t","i","o","n">>,  \* 'injection' 'infusion' 'dialysis' 'transplant' 'rehabilitation'
    <<"p","h","y","s","i","c","a","l"," ","t","h","e","r","a","p","y">>, <<"o","c","c","u","p","a","t","i","o","n","a","l"," ","t","h","e","r","a","p","y">>, <<"s","p","e","e","c","h"," ","t","h","e","r","a","p","y">>,  \* 'physical therapy' 'occupational therapy' 'speech therapy'
    <<"c","h","e","m","o","t","h","e","r","a","p","y">>, <<"r","a","d","i","a","t","i","o","n">>, <<"a","n","e","s","t","h","e","s","i","a">>, <<"b","i","o","p","s","y">>, <<"c","o","l","o","n","o","s","c","o","p","y">>,  \* 'chemotherapy' 'radiation' 'anesthesia' 'biopsy' 'colonoscopy'
    <<"e","n","d","o","s","c","o","p","y">>, <<"m","a","m","m","o","g","r","a","m">>, <<"p","a","p"," ","s","m","e","a","r">>, <<"p","r","e","n","a","t","a","l"," ","c","a","r","e">>, <<"d","e","l","i","v","e","r","y">>,  \* 'endoscopy' 'mammogram' 'pap smear' 'prenatal care' 'delivery'
    <<"m","a","t","e","r","n","i","t","y">>, <<"e","m","e","r","g","e","n","c","y">>, <<"a","m","b","u","l","a","n","c","e">>, <<"h","o","s","p","i","t","a","l","i","z","a","t","i","o","n">>, <<"i","n","p","a","t","i","e","n","t">>,  \* 'maternity' 'emergency' 'ambulance' 'hospitalization' 'inpatient'
    <<"o","u","t","p","a","t","i","e","n","t">>, <<"p","r","e","v","e","n","t","i","v","e"," ","c","a","r","e">> >>  \* 'outpatient' 'preventive care'

LastChar(p) == p[Len(p)]

\* the patterns of the automaton by their last character
ByLastChar ==
    [c \in {LastChar(procedures[j]) : j \in DOMAIN procedures} |->
        {j \in DOMAIN procedures : LastChar(procedures[j]) = c}] @@ <<>>

\* the patterns that end just before position e and start at pos or later
EndingAt(s, e, pos) ==
    IF s[e - 1] \notin DOMAIN ByLastChar THEN {}
    ELSE {j \in ByLastChar[s[e - 1]] :
            /\ e - Len(procedures[j]) >= pos
            /\ SubSeq(s, e - Len(procedures[j]), e - 1) = procedures[j]}

\* AhoCorasick::find_iter with the default (standard) match kind: the scan
\* reports a match as soon as one ends, the longest of those ending there,
\* and goes on after it; the patterns' indices
RECURSIVE find_iter(_, _, _)
find_iter(s, pos, e) ==
    LET ends == SelectSeq(Positions(e, Len(s) + 1), LAMBDA x : EndingAt(s, x, pos) # {})
    IN  IF ends = <<>> THEN <<>>
        ELSE LET ending == EndingAt(s, ends[1], pos)
             IN  <<CHOOSE j \in ending :
                      \A k \in ending : Len(procedures[k]) <= Len(procedures[j])>>
                 \o find_iter(s, ends[1], ends[1] + 1)

RECURSIVE procedures_loop(_, _)
procedures_loop(secs, i) ==
    IF i > Len(secs) THEN <<>>
    ELSE LET matches == find_iter(to_lowercase(section_text(secs[i])), 1, 2)
         IN  Tup([n \in 1..Len(matches) |->
                     Entity(<<"P","r","o","c","e","d","u","r","e">>, procedures[matches[n]], None, <<>>, EmptyMap)])  \* 'Procedure'
             \o procedures_loop(secs, i + 1)

extract_procedures(d) == procedures_loop(d.sections, 1)

\* variant: the key is the name alone
dedup_key_name(e) == e.name

\* the key deduplicate_entities keeps in its seen set
dedup_key(e) == e.entity_type \o <<":">> \o e.name  \* ':'

\* variant: the index moves on after a removal too, so the element that slid
\* into the freed place is never looked at
RECURSIVE dedup_loop_skip(_, _, _)
dedup_loop_skip(es, i, seen) ==
    IF i > Len(es) THEN es
    ELSE IF dedup_key(es[i]) \in seen
         THEN dedup_loop_skip(SubSeq(es, 1, i - 1) \o SubSeq(es, i + 1, Len(es)),
                              i + 1, seen)
         ELSE dedup_loop_skip(es, i + 1, seen \cup {dedup_key(es[i])})

\* the loop of deduplicate_entities: es is the list, i the index, seen the keys
RECURSIVE dedup_loop(_, _, _)
dedup_loop(es, i, seen) ==
    IF i > Len(es) THEN es
    ELSE IF dedup_key(es[i]) \in seen
         THEN dedup_loop(SubSeq(es, 1, i - 1) \o SubSeq(es, i + 1, Len(es)), i, seen)
         ELSE dedup_loop(es, i + 1, seen \cup {dedup_key(es[i])})

deduplicate_entities(es) == dedup_loop(es, 1, {})

\* the list entities::extract has built when it calls deduplicate_entities
accumulate(d, dt) ==
    (CASE dt = <<"p","l","a","n">> -> extract_plan_entities(d)  \* 'plan'
       [] dt = <<"p","o","l","i","c","y">> -> extract_policy_entities(d)  \* 'policy'
       [] dt = <<"c","l","a","i","m">> -> extract_claim_entities(d)  \* 'claim'
       [] OTHER -> extract_generic_entities(d))
    \o extract_benefits(d) \o extract_exclusions(d) \o extract_procedures(d)

\* -------------------------------------------------------------- output.rs

csv_header == <<<<"e","n","t","i","t","y","_","t","y","p","e">>, <<"n","a","m","e">>, <<"d","e","s","c","r","i","p","t","i","o","n">>, <<"r","e","l","a","t","e","d">>, <<"a","t","t","r","i","b","u","t","e","s">>>>  \* 'entity_type' 'name' 'description' 'related' 'attributes'

\* the orders in which a HashMap with these keys can be iterated
iter_orders(keys) ==
    {o \in [1..Cardinality(keys) -> keys] : \A i, j \in DOMAIN o : o[i] = o[j] => i = j}

\* the attributes column of an entity, its map iterated in order o
attributes_str(e, o) ==
    join(Tup([i \in DOMAIN o |-> o[i] \o <<"=">> \o e.attributes[o[i]]]), <<";">>)  \* '=' ';'

csv_record(e, o) ==
    <<e.entity_type, e.name, unwrap_or(e.description, <<>>),
      join(e.related, <<";">>), attributes_str(e, o)>>  \* ';'

\* the tables write_csv can write for a list of entities: a header and a
\* record per entity, for every iteration order of the attribute maps
RECURSIVE csv_records(_)
csv_records(es) ==
    IF es = <<>> THEN {<<>>}
    ELSE {<<csv_record(Head(es), o)>> \o r :
            o \in iter_orders(DOMAIN Head(es).attributes), r \in csv_records(Tail(es))}

write_csv(es) == {<<csv_header>> \o r : r \in csv_records(es)}

nodes_header == <<<<"i","d">>, <<"l","a","b","e","l">>, <<"n","a","m","e">>, <<"d","e","s","c","r","i","p","t","i","o","n">>>>  \* 'id' 'label' 'name' 'description'

edges_header == <<<<"s","o","u","r","c","e">>, <<"t","a","r","g","e","t">>, <<"t","y","p","e">>>>  \* 'source' 'target' 'type'

DigitChar(n) == DigitSeq[n + 1]

\* usize::to_string: the decimal digits of an index
RECURSIVE to_string(_)
to_string(n) ==
    IF n < 10 THEN <<DigitChar(n)>>
    ELSE to_string(n \div 10) \o <<DigitChar(n % 10)>>

ends_with(s, p) ==
    /\ Len(p) <= Len(s)
    /\ SubSeq(s, Len(s) - Len(p) + 1, Len(s)) = p

\* variant: a name of no entity is resolved to the first entity
find_named_or_first(es, related_name, j) ==
    LET named == {k \in j..(Len(es) - 1) : es[k + 1].name = related_name}
    IN  IF named # {} THEN Some(CHOOSE k \in named : \A l \in named : k <= l)
        ELSE IF es # <<>> THEN Some(0)
        ELSE None

\* entities.iter().enumerate().find(name == related_name) from index j on:
\* the index (counted from 0) of the first entity with that name
RECURSIVE find_named(_, _, _)
find_named(es, related_name, j) ==
    IF j >= Len(es) THEN None
    ELSE IF es[j + 1].name = related_name THEN Some(j)
    ELSE find_named(es, related_name, j + 1)

\* the first entity whose name or one of whose attribute values is the value
RECURSIVE find_referenced(_, _, _)
find_referenced(es, value, j) ==
    IF j >= Len(es) THEN None
    ELSE IF \/ es[j + 1].name = value
            \/ \E k \in DOMAIN es[j + 1].attributes : es[j + 1].attributes[k] = value
         THEN Some(j)
    ELSE find_referenced(es, value, j + 1)

node_record(e, i) ==
    <<to_string(i), e.entity_type, e.name, unwrap_or(e.description, <<>>)>>

\* the edges for the names of entity i's related list, from the r-th name on
RECURSIVE related_edges(_, _, _)
related_edges(es, i, r) ==
    IF r > Len(es[i + 1].related) THEN <<>>
    ELSE LET found == find_named(es, es[i + 1].related[r], 0)
         IN  (IF found # None
              THEN <<<<to_string(i), to_string(found[1]), <<"R","E","L","A","T","E","D","_","T","O">>>>>>  \* 'RELATED_TO'
              ELSE <<>>)
             \o related_edges(es, i, r + 1)

references_entity(key) == ends_with(key, <<"_","i","d">>) \/ contains(key, <<"r","e","f","e","r","e","n","c","e">>)  \* '_id' 'reference'

\* the edges for the attributes of entity i, its map iterated in order o
RECURSIVE attribute_edges(_, _, _, _)
attribute_edges(es, i, o, k) ==
    IF k > Len(o) THEN <<>>
    ELSE LET found == find_referenced(es, es[i + 1].attributes[o[k]], 0)
         IN  (IF references_entity(o[k]) /\ found # None
              THEN <<<<to_string(i), to_string(found[1]), to_uppercase(o[k])>>>>
              ELSE <<>>)
             \o attribute_edges(es, i, o, k + 1)

\* the rows write_graph_format can write from entity i on: the node rows and
\* the edge rows, for every iteration order of the attribute maps
RECURSIVE graph_records(_, _)
graph_records(es, i) ==
    IF i >= Len(es) THEN {[nodes |-> <<>>, edges |-> <<>>]}
    ELSE {[nodes |-> <<node_record(es[i + 1], i)>> \o g.nodes,
           edges |-> related_edges(es, i, 1) \o attribute_edges(es, i, o, 1) \o g.edges] :
            o \in iter_orders(DOMAIN es[i + 1].attributes), g \in graph_records(es, i + 1)}

\* the files write_graph_format can write: nodes.csv and edges.csv
write_graph_format(es) ==
    {[nodes |-> <<nodes_header>> \o g.nodes, edges |-> <<edges_header>> \o g.edges] :
        g \in graph_records(es, 0)}

\* ----------------------------------------------------------------- inputs
\* ----------------------------------------------------------------- inputs

MaxSegLines == 3
MaxDocParts == 2

SeqsUpTo(S, n) == UNION {[1..k -> S] : k \in 0..n}

SegVocab == {
    <<>>, <<" "," ">>, <<"x"," ","y">>, <<" ","p"," ">>, <<"I","."," ","T","e">>, <<"A","B",":"," ","r">>, <<"A","."," ","x">>, <<"1","."," ","x">>,  \* '' '  ' 'x y' ' p ' 'I. Te' 'AB: r' 'A. x' '1. x'
    <<"a","."," ","x">>, <<"1",".","1"," ","x">>, <<"A","b",":","x">>, <<"T","i","t","l","e",":"," ","T">> }  \* 'a. x' '1.1 x' 'Ab:x' 'Title: T'

SegTexts == {join(b, <<"\n">>) : b \in SeqsUpTo(SegVocab, MaxSegLines)}  \* '\n'

\* texts that open with blank lines: up to MaxBlank of them, then up to two
\* lines that can or cannot be a title
MaxBlank == 10

LongLine == [i \in 1..TitleMaxLen |-> "a"]

TitleVocab == {<<>>, <<"x"," ","y">>, <<"T","i","t","l","e",":"," ","T">>, <<"A","B",":"," ","r">>, LongLine}  \* '' 'x y' 'Title: T' 'AB: r'

BlankLines(n) == [i \in 1..n |-> <<>>]

TitleTexts ==
    {join(BlankLines(n) \o b, <<"\n">>) : n \in 1..MaxBlank, b \in SeqsUpTo(TitleVocab, 2)}  \* '\n'

DocVocab == {
    <<"T","i","t","l","e",":"," ","S","a","m","p","l","e"," ","P","l","a","n">>,  \* 'Title: Sample Plan'
    <<"P","l","a","n"," ","I","D",":"," ","A","-","1","\n","P","r","e","m","i","u","m",":"," ","$","5">>,  \* 'Plan ID: A-1\nPremium: $5'
    <<"C","l","a","i","m"," ","N","u","m","b","e","r",":"," ","C","-","9">>,  \* 'Claim Number: C-9'
    <<"P","r","o","v","i","d","e","r",":"," ","D","r"," ","W","h","o">>,  \* 'Provider: Dr Who'
    <<"O","V","E","R","V","I","E","W",":","\n","T","h","i","s"," ","p","l","a","n"," ","c","o","v","e","r","s"," ","s","u","r","g","e","r","y",".">>,  \* 'OVERVIEW:\nThis plan covers surgery.'
    <<"B","E","N","E","F","I","T","S",":","\n","-"," ","D","e","n","t","a","l",":"," ","c","l","e","a","n","i","n","g">>,  \* 'BENEFITS:\n- Dental: cleaning'
    <<"E","X","C","L","U","S","I","O","N","S",":","\n","1","."," ","C","o","s","m","e","t","i","c"," ","-"," ","n","o","t"," ","c","o","v","e","r","e","d">>,  \* 'EXCLUSIONS:\n1. Cosmetic - not covered'
    <<"C","O","V","E","R","A","G","E",":","\n","x","-","r","a","y">>,  \* 'COVERAGE:\nx-ray'
    <<"C","O","V","E","R","A","G","E",":","\n","p","h","y","s","i","c","a","l"," ","t","h","e","r","a","p","y">>,  \* 'COVERAGE:\nphysical therapy'
    <<"L","I","M","I","T","S",":","\n","r","e","s","t","r","i","c","t","e","d"," ","c","o","n","d","i","t","i","o","n","s">>,  \* 'LIMITS:\nrestricted conditions'
    <<"I","D",":"," ","7","\n","N","a","m","e",":"," ","A","l">> }  \* 'ID: 7\nName: Al'

DocTexts == {join(b, <<"\n">>) : b \in SeqsUpTo(DocVocab, MaxDocParts)}  \* '\n'

\* texts of up to MaxItemLines lines with headers, list items and sentences
MaxItemLines == 3

ItemVocab == {
    <<"B","E","N","E","F","I","T","S",":">>, <<"N","O","T","E","S",":">>, <<"-"," ","D","e","n","t","a","l",":"," ","c","l","e","a","n","i","n","g">>, <<"*"," ","V","i","s","i","o","n"," ","-"," ","c","o","v","e","r","e","d">>,  \* 'BENEFITS:' 'NOTES:' '- Dental: cleaning' '* Vision - covered'
    <<"2",".">>, <<"L","a","b"," ","-"," ","e","x","c","l","u","d","e","d">>,  \* '2.' 'Lab - excluded'
    <<"I","t"," ","c","o","v","e","r","s"," ","m","r","i","."," ","S","o">>, <<"p","l","a","i","n">> }  \* 'It covers mri. So' 'plain'

ItemTexts == {join(b, <<"\n">>) : b \in SeqsUpTo(ItemVocab, MaxItemLines)}  \* '\n'

\* entity lists handed to write_graph_format: lists extract returns for
\* a few claims and plans, and lists of up to MaxGraphEntities entities whose
\* related names and attribute values name themselves, each other or nothing
MaxGraphEntities == 3

GraphVocab == {
    Entity(<<"C","l","a","i","m">>, <<"A">>, None, <<<<"A">>>>, EmptyMap),  \* 'Claim' 'A' 'A'
    Entity(<<"P","r","o","v","i","d","e","r">>, <<"A">>, None, <<<<"B">>>>, EmptyMap),  \* 'Provider' 'A' 'B'
    Entity(<<"C","l","a","i","m">>, <<"B">>, None, <<<<"A">>>>, EmptyMap),  \* 'Claim' 'B' 'A'
    Entity(<<"C","l","a","i","m">>, <<"B">>, None, <<<<"Z">>>>, EmptyMap),  \* 'Claim' 'B' 'Z'
    Entity(<<"C","l","a","i","m">>, <<"B">>, None, <<<<"Z">>, <<"A">>>>, EmptyMap),  \* 'Claim' 'B' 'Z' 'A'
    Entity(<<"P","l","a","n">>, <<"A">>, None, <<>>, insert(EmptyMap, <<"p","l","a","n","_","i","d">>, <<"A">>)),  \* 'Plan' 'A' 'plan_id' 'A'
    Entity(<<"P","l","a","n">>, <<"B">>, None, <<>>, insert(EmptyMap, <<"p","l","a","n","_","i","d">>, <<"Z">>)),  \* 'Plan' 'B' 'plan_id' 'Z'
    Entity(<<"D","o","c","u","m","e","n","t">>, <<"A">>, None, <<<<"B">>>>,  \* 'Document' 'A' 'B'
           insert(insert(EmptyMap, <<"d","o","c","_","i","d">>, <<"B">>), <<"r","e","f","e","r","e","n","c","e">>, <<"A">>)),  \* 'doc_id' 'B' 'reference' 'A'
    Entity(<<"B","e","n","e","f","i","t">>, <<"B">>, Some(<<"d">>), <<>>, insert(EmptyMap, <<"i","d">>, <<"A">>)) }  \* 'Benefit' 'B' 'd' 'id' 'A'

GraphTexts == {
    <<<<"C","l","a","i","m"," ","N","u","m","b","e","r",":"," ","A","B","\n","P","r","o","v","i","d","e","r",":"," ","A","B">>, <<"c","l","a","i","m">>>>,  \* 'Claim Number: AB\nProvider: AB' 'claim'
    <<<<"C","l","a","i","m"," ","N","u","m","b","e","r",":"," ","C","-","9","\n","P","r","o","v","i","d","e","r",":"," ","D","r"," ","W","h","o">>, <<"c","l","a","i","m">>>>,  \* 'Claim Number: C-9\nProvider: Dr Who' 'claim'
    <<<<"P","l","a","n"," ","I","D",":"," ","A","-","1","\n","C","O","V","E","R","A","G","E",":","\n","x","-","r","a","y">>, <<"p","l","a","n">>>> }  \* 'Plan ID: A-1\nCOVERAGE:\nx-ray' 'plan'

GraphLists ==
    SeqsUpTo(GraphVocab, MaxGraphEntities)
    \cup {deduplicate_entities(accumulate(process(t[1], t[2]), t[2])) : t \in GraphTexts}

DocTypes == {<<"p","l","a","n">>, <<"p","o","l","i","c","y">>, <<"c","l","a","i","m">>, <<"g","e","n","e","r","i","c">>}  \* 'plan' 'policy' 'claim' 'generic'

vars == <<pc, text, doc_type, doc, acc, entities, csv, run, prev, graph>>

NoGraph == [nodes |-> <<>>, edges |-> <<>>]

NoDoc == [doc_type |-> <<>>, title |-> None, sections |-> <<>>, metadata |-> EmptyMap]

Init ==
    /\ pc = "start"
    /\ text \in DocTexts
    /\ doc_type \in DocTypes
    /\ doc = NoDoc
    /\ acc = <<>>
    /\ entities = <<>>
    /\ csv = <<>>
    /\ run = 1
    /\ prev = <<>>
    /\ graph = NoGraph

\* main.rs: document::process
Process ==
    /\ pc = "start"
    /\ pc' = "processed"
    /\ doc' = process(text, doc_type)
    /\ UNCHANGED <<text, doc_type, acc, entities, csv, run, prev, graph>>

\* main.rs: entities::extract
Extract ==
    /\ pc = "processed"
    /\ pc' = "extracted"
    /\ acc' = accumulate(doc, doc_type)
    /\ entities' = deduplicate_entities(acc')
    /\ UNCHANGED <<text, doc_type, doc, csv, run, prev, graph>>

\* main.rs: output::write_csv
WriteCsv ==
    /\ pc = "extracted"
    /\ pc' = "written"
    /\ csv' \in write_csv(entities)
    /\ UNCHANGED <<text, doc_type, doc, acc, entities, run, prev, graph>>

\* the program is run a second time on the same input
RunAgain ==
    /\ pc = "written"
    /\ run = 1
    /\ run' = 2
    /\ prev' = <<[entities |-> entities, csv |-> csv]>>
    /\ pc' = "start"
    /\ doc' = NoDoc
    /\ acc' = <<>>
    /\ entities' = <<>>
    /\ csv' = <<>>
    /\ UNCHANGED <<text, doc_type, graph>>

Next == Process \/ Extract \/ WriteCsv

Spec == Init /\ [][Next]_vars

NextTwice == Next \/ RunAgain

SpecTwice == Init /\ [][NextTwice]_vars

InitSeg ==
    /\ pc = "start"
    /\ text \in SegTexts \cup TitleTexts
    /\ doc_type = <<"g","e","n","e","r","i","c">>  \* 'generic'
    /\ doc = NoDoc
    /\ acc = <<>>
    /\ entities = <<>>
    /\ csv = <<>>
    /\ run = 1
    /\ prev = <<>>
    /\ graph = NoGraph

\* document::process alone, on the segmentation inputs
SpecSeg == InitSeg /\ [][Process]_vars

InitItems ==
    /\ pc = "start"
    /\ text \in ItemTexts
    /\ doc_type = <<"g","e","n","e","r","i","c">>  \* 'generic'
    /\ doc = NoDoc
    /\ acc = <<>>
    /\ entities = <<>>
    /\ csv = <<>>
    /\ run = 1
    /\ prev = <<>>
    /\ graph = NoGraph

NextItems == Process \/ Extract

\* process and extract on the texts with list items
SpecItems == InitItems /\ [][NextItems]_vars

InitGraph ==
    /\ pc = "extracted"
    /\ text = <<>>
    /\ doc_type = <<"g","e","n","e","r","i","c">>  \* 'generic'
    /\ doc = NoDoc
    /\ acc = <<>>
    /\ entities \in GraphLists
    /\ csv = <<>>
    /\ run = 1
    /\ prev = <<>>
    /\ graph = NoGraph

\* output::write_graph_format on a list of entities
WriteGraph ==
    /\ pc = "extracted"
    /\ pc' = "graph"
    /\ graph' \in write_graph_format(entities)
    /\ UNCHANGED <<text, doc_type, doc, acc, entities, csv, run, prev>>

\* write_graph_format alone, on the entity lists
SpecGraph == InitGraph /\ [][WriteGraph]_vars

\* ----------------------------------------------------------------- claims

IsHeader(line) == \E n \in DOMAIN section_patterns : is_match(section_patterns[n].re, line)

\* the trimmed non-blank lines of the input that are no headers, in order
RECURSIVE BodyLines(_)
BodyLines(ls) ==
    IF ls = <<>> THEN <<>>
    ELSE (IF trim(Head(ls)) # <<>> /\ ~IsHeader(trim(Head(ls)))
          THEN <<trim(Head(ls))>> ELSE <<>>) \o BodyLines(Tail(ls))

\* the trimmed non-blank lines of the input that are headers, in order
RECURSIVE HeaderLines(_)
HeaderLines(ls) ==
    IF ls = <<>> THEN <<>>
    ELSE (IF trim(Head(ls)) # <<>> /\ IsHeader(trim(Head(ls)))
          THEN <<trim(Head(ls))>> ELSE <<>>) \o HeaderLines(Tail(ls))

\* the lines of the sections' contents, read in list order
RECURSIVE ContentLines(_)
ContentLines(secs) ==
    IF secs = <<>> THEN <<>>
    ELSE (IF Head(secs).content = <<>> THEN <<>> ELSE split(Head(secs).content, {"\n"}))
         \o ContentLines(Tail(secs))

\* C3: every non-blank, non-header input line appears, trimmed, in exactly one
\* section's content, and the contents read in list order, line by line, are
\* these lines in input order, none lost or repeated.
C3_LineCoverage ==
    pc = "processed" => ContentLines(doc.sections) = BodyLines(lines(text))

\* a content line before a header and a padded one after it
C3_Witness ==
    /\ pc = "processed"
    /\ text = <<"x"," ","y","\n","I","."," ","T","e","\n"," ","p"," ">>  \* 'x y\nI. Te\n p '
    /\ Len(doc.sections) = 2
    /\ doc.sections[1].content = <<"x"," ","y">>  \* 'x y'
    /\ doc.sections[2].content = <<"p">>  \* 'p'

Titled(secs) == SelectSeq(secs, LAMBDA sec : sec.title # None)

\* the level of the first pattern, in the fixed order, that matches a header line
FirstMatchLevel(line) ==
    section_patterns[CHOOSE n \in DOMAIN section_patterns :
        /\ is_match(section_patterns[n].re, line)
        /\ \A m \in 1..(n - 1) : ~is_match(section_patterns[m].re, line)].level

MatchesLevel(line, l) ==
    \E n \in DOMAIN section_patterns :
        section_patterns[n].level = l /\ is_match(section_patterns[n].re, line)

\* C4: each header line opens exactly one section, whose level is that of the
\* first pattern, in the fixed order, that matches the line; a line that
\* matches a Level-1 pattern and a lower-level one is classified Level 1.
C4_HeaderPrecedence ==
    pc = "processed" =>
        LET h == HeaderLines(lines(text))
            t == Titled(doc.sections)
        IN  /\ Len(t) = Len(h)
            /\ \A k \in DOMAIN h :
                  /\ k \in DOMAIN t
                  /\ t[k].level = FirstMatchLevel(h[k])
                  /\ MatchesLevel(h[k], 1) => t[k].level = 1

\* a Roman-numeral header, which the single-upper-case-letter pattern matches too
C4_Witness ==
    /\ pc = "processed"
    /\ \E k \in DOMAIN doc.sections :
          LET h == HeaderLines(lines(text))
          IN  /\ k \in DOMAIN h
              /\ MatchesLevel(h[k], 1)
              /\ MatchesLevel(h[k], 2)
              /\ doc.sections[k].title = Some(<<"I"," ","T","e">>)  \* 'I Te'
              /\ doc.sections[k].level = 1

\* the lines among the first TitleScanLines that start with "Title:" after trimming
TitleLabelLines(ls) ==
    {k \in 1..Len(ls) : k <= TitleScanLines /\ starts_with(trim(ls[k]), <<"T","i","t","l","e",":">>)}  \* 'Title:'

\* C5: when a line starting with "Title:" is among the first 10 lines, the title
\* is the trimmed remainder of that line, also when an earlier line is short, not
\* all upper-case and without a colon.
C5_ExplicitLabelWins ==
    pc = "processed" =>
        LET ls == lines(text)
            ks == TitleLabelLines(ls)
        IN  ks # {} =>
                LET k == CHOOSE x \in ks : \A y \in ks : x <= y
                IN  doc.title = Some(trim(strip_prefix(trim(ls[k]), <<"T","i","t","l","e",":">>)[1]))  \* 'Title:'

\* the title a sequence of lines gives when all of them are looked at
RECURSIVE FirstQualifying(_, _)
FirstQualifying(ls, k) ==
    IF k > Len(ls) THEN None
    ELSE IF TitleOfLine(ls[k]) # None THEN TitleOfLine(ls[k])
    ELSE FirstQualifying(ls, k + 1)

\* C6 (as stated): the title is the first qualifying line among the first 10
\* non-blank lines; blank lines do not count toward the limit.
C6_BlankLinesNotCounted ==
    pc = "processed" =>
        doc.title = FirstQualifying(take(non_blank(lines(text)), TitleScanLines), 1)

\* C6 (amended): the title is the first qualifying line among the first 10 lines
\* of the text, blank lines counted: a line after the 10th line is never the
\* title, and there is no title when none of the first 10 lines qualifies.
C6_BlankLinesCounted ==
    pc = "processed" =>
        LET ls == lines(text)
            scanned == {k \in DOMAIN ls : k <= TitleScanLines}
            hits == {k \in scanned : TitleOfLine(ls[k]) # None}
        IN  IF hits = {} THEN doc.title = None
            ELSE \E k \in hits :
                    /\ \A j \in hits : k <= j
                    /\ doc.title = TitleOfLine(ls[k])

\* ten blank lines, then a line that would qualify: no title
C6_Witness ==
    /\ pc = "processed"
    /\ text = join(BlankLines(TitleScanLines) \o <<<<"x"," ","y">>>>, <<"\n">>)  \* 'x y' '\n'
    /\ doc.title = None

Key(e) == <<e.entity_type, e.name>>

Done == pc \in {"extracted", "written"}

\* C1: the list extract returns holds no two entities with the same
\* (entity_type, name) pair.
C1_NoDuplicateKeys ==
    Done => \A i, j \in DOMAIN entities : Key(entities[i]) = Key(entities[j]) => i = j

\* the list held duplicates before the final pass
C1_Witness ==
    /\ pc = "extracted"
    /\ \E i, j \in DOMAIN acc : i < j /\ Key(acc[i]) = Key(acc[j])

\* the indices of the first occurrence of each key in a list
FirstOccurrences(es) ==
    {i \in DOMAIN es : \A j \in 1..(i - 1) : Key(es[j]) # Key(es[i])}

\* the elements of es at the indices in keep, from the i-th on, in order
RECURSIVE Kept(_, _, _)
Kept(es, keep, i) ==
    IF i > Len(es) THEN <<>>
    ELSE (IF i \in keep THEN <<es[i]>> ELSE <<>>) \o Kept(es, keep, i + 1)

\* C2: deduplicate_entities turns the accumulated list into the subsequence of
\* the first occurrence of each (entity_type, name) key: later duplicates are
\* removed, first occurrences are kept unchanged and in their order.
C2_FirstOccurrenceKept ==
    pc = "extracted" => entities = Kept(acc, FirstOccurrences(acc), 1)

\* a later duplicate that differs from the first occurrence in another field
\* is removed, and an entity with a new key follows it
C2_Witness ==
    /\ pc = "extracted"
    /\ \E i, j, k \in DOMAIN acc :
          /\ i < j /\ j < k
          /\ Key(acc[i]) = Key(acc[j])
          /\ acc[i] # acc[j]
          /\ k \in FirstOccurrences(acc)
    /\ Len(entities) < Len(acc)

\* C7: two runs on the same (text, doc_type) give the same ordered entity list,
\* written out identically: the attributes enumerated in the same order too.
C7_SameOutputTwice ==
    (pc = "written" /\ run = 2) =>
        /\ prev[1].entities = entities
        /\ prev[1].csv = csv

PrimaryTypes == {<<"P","l","a","n">>, <<"P","o","l","i","c","y">>, <<"C","l","a","i","m">>, <<"D","o","c","u","m","e","n","t">>}  \* 'Plan' 'Policy' 'Claim' 'Document'

PrimaryType(dt) ==
    CASE dt = <<"p","l","a","n">> -> <<"P","l","a","n">>  \* 'plan' 'Plan'
      [] dt = <<"p","o","l","i","c","y">> -> <<"P","o","l","i","c","y">>  \* 'policy' 'Policy'
      [] dt = <<"c","l","a","i","m">> -> <<"C","l","a","i","m">>  \* 'claim' 'Claim'
      [] OTHER -> <<"D","o","c","u","m","e","n","t">>  \* 'Document'

\* C8: for the empty text, process gives no title, no sections and no metadata,
\* and extract gives exactly the primary entity of the doc_type, named
\* "Unnamed <Type>", with no attributes, no related names and no description.
C8_EmptyInput ==
    text = <<>> =>
        /\ pc # "start" =>
              /\ doc.title = None
              /\ doc.sections = <<>>
              /\ doc.metadata = EmptyMap
        /\ Done =>
              entities = <<Entity(PrimaryType(doc_type),
                                  <<"U","n","n","a","m","e","d"," ">> \o PrimaryType(doc_type),  \* 'Unnamed '
                                  None, <<>>, EmptyMap)>>

C8_Witness ==
    /\ text = <<>>
    /\ pc = "extracted"
    /\ doc_type = <<"c","l","a","i","m">>  \* 'claim'
    /\ Len(entities) = 1
    /\ entities[1].name = <<"U","n","n","a","m","e","d"," ","C","l","a","i","m">>  \* 'Unnamed Claim'

\* C9: the list extract returns holds exactly one entity of a primary type; it
\* is the first element, its type is the one of the doc_type (Document for any
\* doc_type but plan, policy and claim) and its attributes are the metadata.
C9_OnePrimaryEntity ==
    Done =>
        /\ {i \in DOMAIN entities : entities[i].entity_type \in PrimaryTypes} = {1}
        /\ entities[1].entity_type = PrimaryType(doc_type)
        /\ entities[1].attributes = doc.metadata

\* a document of no known type, with metadata and other entities
C9_Witness ==
    /\ pc = "extracted"
    /\ doc_type = <<"g","e","n","e","r","i","c">>  \* 'generic'
    /\ doc.metadata # EmptyMap
    /\ Len(entities) > 2
    /\ entities[1].entity_type = <<"D","o","c","u","m","e","n","t">>  \* 'Document'

Providers(es) == {i \in DOMAIN es : es[i].entity_type = <<"P","r","o","v","i","d","e","r">>}  \* 'Provider'

\* the provider relations of a claim document in a list of entities
ProviderLinked(es, metadata) ==
    LET claim == es[CHOOSE i \in DOMAIN es : es[i].entity_type = <<"C","l","a","i","m">>]  \* 'Claim'
    IN  IF <<"p","r","o","v","i","d","e","r">> \in DOMAIN metadata  \* 'provider'
        THEN /\ \E i \in Providers(es) :
                   /\ Providers(es) = {i}
                   /\ es[i].name = metadata[<<"p","r","o","v","i","d","e","r">>]  \* 'provider'
                   /\ \E r \in DOMAIN es[i].related : es[i].related[r] = claim.name
             /\ \E r \in DOMAIN claim.related : claim.related[r] = metadata[<<"p","r","o","v","i","d","e","r">>]  \* 'provider'
        ELSE /\ Providers(es) = {}
             /\ claim.related = <<>>

\* C10: for a claim, there is a Provider entity iff the metadata has a
\* provider; then it is named after it, its related list holds the claim's
\* name and the claim's related list holds the provider's name; without one the
\* claim's related list is empty.  This holds after deduplication too.
C10_ProviderRelation ==
    (Done /\ doc_type = <<"c","l","a","i","m">>) =>  \* 'claim'
        /\ \E i \in DOMAIN acc : acc[i].entity_type = <<"C","l","a","i","m">>  \* 'Claim'
        /\ \E i \in DOMAIN entities : entities[i].entity_type = <<"C","l","a","i","m">>  \* 'Claim'
        /\ ProviderLinked(acc, doc.metadata)
        /\ ProviderLinked(entities, doc.metadata)

\* a numbered claim with a provider: the two entities name each other
C10_Witness ==
    /\ pc = "extracted"
    /\ doc_type = <<"c","l","a","i","m">>  \* 'claim'
    /\ {<<"p","r","o","v","i","d","e","r">>, <<"c","l","a","i","m","_","n","u","m","b","e","r">>} \subseteq DOMAIN doc.metadata  \* 'provider' 'claim_number'
    /\ Len(entities) >= 2
    /\ entities[1].name = doc.metadata[<<"c","l","a","i","m","_","n","u","m","b","e","r">>]  \* 'claim_number'
    /\ entities[1].related = <<doc.metadata[<<"p","r","o","v","i","d","e","r">>]>>  \* 'provider'
    /\ entities[2].related = <<entities[1].name>>

\* the section's text as extract_procedures searches it
Blob(sec) == to_lowercase(section_text(sec))

\* the vocabulary terms that occur in a section's text
TermsIn(sec) == {j \in DOMAIN procedures : contains(Blob(sec), procedures[j])}

ProcedureNames(es) == {es[i].name : i \in {k \in DOMAIN es : es[k].entity_type = <<"P","r","o","c","e","d","u","r","e">>}}  \* 'Procedure'

\* C11: every vocabulary term that occurs in the lowercased text of a section,
\* overlapping another term's occurrence or not, is the name of a Procedure
\* entity of the returned list.
C11_EveryOccurringTerm ==
    Done => \A i \in DOMAIN doc.sections :
                \A j \in TermsIn(doc.sections[i]) :
                    procedures[j] \in ProcedureNames(entities)

\* the rows of edges.csv after the header that are RELATED_TO edges
RelatedRows(rows) == SelectSeq(Tail(rows), LAMBDA row : row[3] = <<"R","E","L","A","T","E","D","_","T","O">>)  \* 'RELATED_TO'

Indices(es) == 0..(Len(es) - 1)

\* the first entity other than entity i that has the name, if any
FirstElsewhere(es, name, i) ==
    LET others == {j \in Indices(es) \ {i} : es[j + 1].name = name}
    IN  IF others = {} THEN None
        ELSE Some(CHOOSE j \in others : \A k \in others : j <= k)

\* the RELATED_TO rows when every name is resolved elsewhere in the list
RECURSIVE ElsewhereRows(_, _, _)
ElsewhereRows(es, i, r) ==
    IF i >= Len(es) THEN <<>>
    ELSE IF r > Len(es[i + 1].related) THEN ElsewhereRows(es, i + 1, 1)
    ELSE LET found == FirstElsewhere(es, es[i + 1].related[r], i)
         IN  (IF found # None
              THEN <<<<to_string(i), to_string(found[1]), <<"R","E","L","A","T","E","D","_","T","O">>>>>>  \* 'RELATED_TO'
              ELSE <<>>)
             \o ElsewhereRows(es, i, r + 1)

\* C12: the RELATED_TO edges written are those from each entity to the first
\* entity elsewhere in the list that has the related name, and none of them
\* has its source as its target.
C12_RelatedElsewhere ==
    pc = "graph" =>
        /\ RelatedRows(graph.edges) = ElsewhereRows(entities, 0, 1)
        /\ \A n \in DOMAIN graph.edges :
              graph.edges[n][3] = <<"R","E","L","A","T","E","D","_","T","O">> => graph.edges[n][1] # graph.edges[n][2]  \* 'RELATED_TO'

Names(es) == {es[k].name : k \in DOMAIN es}

\* the names of entity i's related list that some entity of the list has
Resolvable(es, i) == {r \in DOMAIN es[i + 1].related : es[i + 1].related[r] \in Names(es)}

RowsFrom(rows, i) == {n \in DOMAIN rows : rows[n][1] = to_string(i)}

\* C14: write_graph_format writes its files for every list of entities; a
\* related name that no entity has gives no edge, the other related names of
\* the entity give one edge each, to an entity of that name, and there is one
\* node row per entity.
C14_DanglingNameSkipped ==
    /\ pc = "extracted" => write_graph_format(entities) # {}
    /\ pc = "graph" =>
        /\ Len(graph.nodes) = Len(entities) + 1
        /\ \A i \in Indices(entities) : graph.nodes[i + 2] = node_record(entities[i + 1], i)
        /\ \A i \in Indices(entities) :
              /\ Cardinality(RowsFrom(RelatedRows(graph.edges), i))
                    = Cardinality(Resolvable(entities, i))
              /\ \A n \in RowsFrom(RelatedRows(graph.edges), i) :
                    \E j \in Indices(entities) :
                        /\ RelatedRows(graph.edges)[n][2] = to_string(j)
                        /\ \E r \in Resolvable(entities, i) :
                              entities[i + 1].related[r] = entities[j + 1].name

\* an entity with a name of no entity and then the name of a later entity:
\* one edge is written for it, and the node rows go on after it
C14_Witness ==
    /\ pc = "graph"
    /\ \E i \in Indices(entities) :
          /\ entities[i + 1].related = <<<<"Z">>, <<"A">>>>  \* 'Z' 'A'
          /\ i + 2 <= Len(entities)
          /\ entities[i + 2].name = <<"A">>  \* 'A'
          /\ <<"Z">> \notin Names(entities)  \* 'Z'
          /\ \E n \in DOMAIN graph.edges :
                graph.edges[n] = <<to_string(i), to_string(i + 1), <<"R","E","L","A","T","E","D","_","T","O">>>>  \* 'RELATED_TO'
          /\ Len(graph.nodes) = Len(entities) + 1

CoverageWords == {<<"c","o","v","e","r","a","g","e">>, <<"c","o","v","e","r","s">>, <<"c","o","v","e","r","e","d">>, <<"b","e","n","e","f","i","t">>, <<"b","e","n","e","f","i","t","s">>}  \* 'coverage' 'covers' 'covered' 'benefit' 'benefits'

\* the sections whose text holds a coverage keyword
Covering(d) ==
    {i \in DOMAIN d.sections : \E w \in CoverageWords : contains(Blob(d.sections[i]), w)}

CoverageName(sec) == IF sec.title = None THEN <<"C","o","v","e","r","a","g","e">> ELSE sec.title[1]  \* 'Coverage'

\* the Coverage entity that stands for a section
CoverageOf(sec) == Entity(<<"C","o","v","e","r","a","g","e">>, CoverageName(sec), Some(sec.content), <<>>, EmptyMap)  \* 'Coverage'

\* the covering sections with no earlier covering section of the same name
FirstCovering(d) ==
    {i \in Covering(d) :
        \A j \in Covering(d) :
            j < i => CoverageName(d.sections[j]) # CoverageName(d.sections[i])}

CoverageEntities(es) == {n \in DOMAIN es : es[n].entity_type = <<"C","o","v","e","r","a","g","e">>}  \* 'Coverage'

BenefitWords ==
    {<<"b","e","n","e","f","i","t">>, <<"b","e","n","e","f","i","t","s">>, <<"c","o","v","e","r","e","d">>, <<"c","o","v","e","r","a","g","e">>, <<"c","o","v","e","r","s">>, <<"i","n","c","l","u","d","e","d">>, <<"i","n","c","l","u","d","e","s">>}  \* 'benefit' 'benefits' 'covered' 'coverage' 'covers' 'included' 'includes'

ExclusionWords ==
    {<<"e","x","c","l","u","s","i","o","n">>, <<"e","x","c","l","u","s","i","o","n","s">>, <<"e","x","c","l","u","d","e","d">>, <<"n","o","t"," ","c","o","v","e","r","e","d">>, <<"n","o","t"," ","i","n","c","l","u","d","e">>,  \* 'exclusion' 'exclusions' 'excluded' 'not covered' 'not include'
     <<"l","i","m","i","t","a","t","i","o","n">>, <<"l","i","m","i","t","a","t","i","o","n","s">>}  \* 'limitation' 'limitations'

\* the keyword gate of a section
Gate(sec, words) == \E w \in words : contains(Blob(sec), w)

\* the entities of the structured matches in a section's text
Structured(sec, t) == structured_entities(item_patterns, 1, section_text(sec), t)

\* the entities of the sentences of a section's text that hold a keyword
Fallback(sec, kws, t) == fallback_entities(section_text(sec), kws, t)

\* what the sections from the i-th on give when the fallback runs exactly for
\* the sections that pass the gate and have no structured match
RECURSIVE TwoTier(_, _, _, _, _)
TwoTier(secs, i, words, kws, t) ==
    IF i > Len(secs) THEN <<>>
    ELSE (IF ~Gate(secs[i], words) THEN <<>>
          ELSE IF Structured(secs[i], t) # <<>> THEN Structured(secs[i], t)
          ELSE Fallback(secs[i], kws, t))
         \o TwoTier(secs, i + 1, words, kws, t)

OfType(es, t) == SelectSeq(es, LAMBDA e : e.entity_type = t)

\* the entities of one section have all a description or have all none
OneTier(es) ==
    \/ \A n \in DOMAIN es : es[n].description # None
    \/ \A n \in DOMAIN es : es[n].description = None

\* C15: the Benefit (Exclusion) entities extract accumulates are, section by
\* section, nothing for a section that fails the keyword gate, the structured
\* entities when the patterns match in the section's text, and the fallback
\* entities exactly when they do not; the structured ones have a description,
\* the fallback ones have none, and no section gives both.
C15_FallbackIffNoStructured ==
    Done =>
        /\ OfType(acc, <<"B","e","n","e","f","i","t">>)  \* 'Benefit'
              = TwoTier(doc.sections, 1, BenefitWords, benefit_keywords, <<"B","e","n","e","f","i","t">>)  \* 'Benefit'
        /\ OfType(acc, <<"E","x","c","l","u","s","i","o","n">>)  \* 'Exclusion'
              = TwoTier(doc.sections, 1, ExclusionWords, exclusion_keywords, <<"E","x","c","l","u","s","i","o","n">>)  \* 'Exclusion'
        /\ \A i \in DOMAIN doc.sections :
              /\ OneTier(items_of_section(doc.sections[i], benefit_keywords, <<"B","e","n","e","f","i","t">>))  \* 'Benefit'
              /\ OneTier(items_of_section(doc.sections[i], exclusion_keywords, <<"E","x","c","l","u","s","i","o","n">>))  \* 'Exclusion'
              /\ \A n \in DOMAIN Structured(doc.sections[i], <<"B","e","n","e","f","i","t">>) :  \* 'Benefit'
                    Structured(doc.sections[i], <<"B","e","n","e","f","i","t">>)[n].description # None  \* 'Benefit'
              /\ \A n \in DOMAIN Fallback(doc.sections[i], benefit_keywords, <<"B","e","n","e","f","i","t">>) :  \* 'Benefit'
                    Fallback(doc.sections[i], benefit_keywords, <<"B","e","n","e","f","i","t">>)[n].description = None  \* 'Benefit'

\* a document with a section that has a structured item and a sentence with a
\* keyword, which gives only the item, and a section whose sentences are taken
C15_Witness ==
    /\ pc = "extracted"
    /\ \E i \in DOMAIN doc.sections :
          /\ Gate(doc.sections[i], BenefitWords)
          /\ Structured(doc.sections[i], <<"B","e","n","e","f","i","t">>) # <<>>  \* 'Benefit'
          /\ Fallback(doc.sections[i], benefit_keywords, <<"B","e","n","e","f","i","t">>) # <<>>  \* 'Benefit'
    /\ \E i \in DOMAIN doc.sections :
          /\ Gate(doc.sections[i], BenefitWords)
          /\ Structured(doc.sections[i], <<"B","e","n","e","f","i","t">>) = <<>>  \* 'Benefit'
          /\ Fallback(doc.sections[i], benefit_keywords, <<"B","e","n","e","f","i","t">>) # <<>>  \* 'Benefit'
    /\ \E n, m \in DOMAIN acc :
          /\ acc[n].entity_type = <<"B","e","n","e","f","i","t">> /\ acc[n].description # None  \* 'Benefit'
          /\ acc[m].entity_type = <<"B","e","n","e","f","i","t">> /\ acc[m].description = None  \* 'Benefit'

\* the trimmed non-blank lines of the input, in order
RECURSIVE NonBlank(_)
NonBlank(ls) ==
    IF ls = <<>> THEN <<>>
    ELSE (IF trim(Head(ls)) # <<>> THEN <<trim(Head(ls))>> ELSE <<>>) \o NonBlank(Tail(ls))

\* the non-blank lines before the first header line: none of them is a header
Lead(nb) ==
    LET hs == {k \in DOMAIN nb : IsHeader(nb[k])}
    IN  IF hs = {} THEN nb
        ELSE SubSeq(nb, 1, (CHOOSE k \in hs : \A l \in hs : k <= l) - 1)

\* the first lines of the sections to expect: the first line before any
\* header, if there is one, and then the header lines
FirstLines(nb) ==
    (IF Lead(nb) # <<>> THEN <<Lead(nb)[1]>> ELSE <<>>) \o SelectSeq(nb, IsHeader)

\* a section starts with the line: as its header, or as its first content line
StartsWith(sec, line) ==
    IF IsHeader(line)
    THEN sec.title = HeaderSection(line, FirstPattern(line, 1)).title
    ELSE /\ sec.title = None
         /\ starts_with(sec.content, line)
         /\ (Len(sec.content) > Len(line) => sec.content[Len(line) + 1] = "\n")

\* C16: every returned section has a title or content, and a level in 1..3;
\* the sections are in the order in which their first lines come in the input;
\* the untitled section is first in the list exactly when a non-blank line
\* that is no header comes before the first header (before the end of the
\* input, when it has no header).
C16_SectionInvariants ==
    pc = "processed" =>
        LET nb == NonBlank(lines(text))
            first == FirstLines(nb)
        IN  /\ \A k \in DOMAIN doc.sections :
                  /\ doc.sections[k].title # None \/ doc.sections[k].content # <<>>
                  /\ doc.sections[k].level \in 1..3
            /\ Len(doc.sections) = Len(first)
            /\ \A k \in DOMAIN doc.sections :
                  k \in DOMAIN first /\ StartsWith(doc.sections[k], first[k])
            /\ (doc.sections # <<>> /\ doc.sections[1].title = None) <=> Lead(nb) # <<>>

\* content before a header, then a level-3 and a level-2 section
C16_Witness ==
    /\ pc = "processed"
    /\ text = <<"x"," ","y","\n","1",".","1"," ","x","\n","A","."," ","x">>  \* 'x y\n1.1 x\nA. x'
    /\ Len(doc.sections) = 3
    /\ doc.sections[1] = Section(None, <<"x"," ","y">>, 1)  \* 'x y'
    /\ doc.sections[2].level = 3
    /\ doc.sections[3].level = 2

\* the part of a line before the first character of the set
RECURSIVE Before(_, _)
Before(line, set) ==
    IF line = <<>> \/ Head(line) \in set THEN <<>>
    ELSE <<Head(line)>> \o Before(Tail(line), set)

\* the part of a line after the first character of the set
After(line, set) == SubSeq(line, Len(Before(line, set)) + 2, Len(line))

\* the title of a header line of the upper-case label pattern: the label,
\* which is what stands before the colon
LabelTitle(line) == Before(line, {":"})

\* the title of a header line of the five other patterns: the label, a space,
\* and all that follows the label's "." (or the white space after a label like
\* 1.1) and the white space after it
DottedTitle(line) ==
    IF FirstPattern(line, 1) = 6
    THEN Before(line, WsSet) \o <<" ">> \o TrimStart(After(line, WsSet))  \* ' '
    ELSE Before(line, {"."}) \o <<" ">> \o TrimStart(After(line, {"."}))  \* ' '

\* the lines a section holds in its content
LinesOf(sec) == IF sec.content = <<>> THEN <<>> ELSE split(sec.content, {"\n"})

\* the body lines between the k-th header line and the next one
RECURSIVE BodyAfter(_, _)
BodyAfter(nb, k) ==
    IF k > Len(nb) \/ IsHeader(nb[k]) THEN <<>>
    ELSE <<nb[k]>> \o BodyAfter(nb, k + 1)

HeaderAt(nb) == SelectSeq(Positions(1, Len(nb)), LAMBDA k : IsHeader(nb[k]))

\* C17: the section of a header line of the upper-case label pattern has the
\* label alone as its title, and what follows the colon on the line is in no
\* title and no content: the section's content is made of the lines after
\* the header only.  The section of a header line of another pattern has the
\* label, a space and the whole rest of the line as its title.
C17_TextAfterColonDropped ==
    pc = "processed" =>
        LET nb == NonBlank(lines(text))
            at == HeaderAt(nb)
            t == Titled(doc.sections)
        IN  /\ Len(t) = Len(at)
            /\ \A k \in DOMAIN at :
                  /\ k \in DOMAIN t
                  /\ t[k].title = Some(IF FirstPattern(nb[at[k]], 1) = 2
                                       THEN LabelTitle(nb[at[k]])
                                       ELSE DottedTitle(nb[at[k]]))
                  /\ LinesOf(t[k]) = BodyAfter(nb, at[k] + 1)

\* an upper-case label with text after its colon, then a line of content
C17_Witness ==
    /\ pc = "processed"
    /\ text = <<"A","B",":"," ","r","\n","x"," ","y","\n","1",".","1"," ","x">>  \* 'AB: r\nx y\n1.1 x'
    /\ doc.sections = <<Section(Some(<<"A","B">>), <<"x"," ","y">>, 1), Section(Some(<<"1",".","1"," ","x">>), <<>>, 3)>>  \* 'AB' 'x y' '1.1 x'

\* C18: there are as many sections as header lines, and one more when a
\* non-blank line that is no header comes before the first header (before the
\* end of the input, when it has no header); a header
\* line right after a header line has a section of its own, with no content;
\* only the first section can be without title.
C18_SectionCount ==
    pc = "processed" =>
        LET nb == NonBlank(lines(text))
            at == HeaderAt(nb)
            t == Titled(doc.sections)
        IN  /\ Len(doc.sections) = Len(at) + (IF Lead(nb) # <<>> THEN 1 ELSE 0)
            /\ \A k \in DOMAIN doc.sections : doc.sections[k].title = None => k = 1
            /\ \A k \in DOMAIN at :
                  (k + 1 \in DOMAIN at /\ at[k + 1] = at[k] + 1) =>
                      (k \in DOMAIN t /\ t[k].content = <<>>)

\* two header lines in a row after a line of content: three sections, the
\* middle one with a title and no content
C18_Witness ==
    /\ pc = "processed"
    /\ text = <<"x"," ","y","\n","I","."," ","T","e","\n","A","."," ","x">>  \* 'x y\nI. Te\nA. x'
    /\ Len(doc.sections) = 3
    /\ doc.sections[1].title = None
    /\ doc.sections[2] = Section(Some(<<"I"," ","T","e">>), <<>>, 1)  \* 'I Te'
    /\ doc.sections[3].title = Some(<<"A"," ","x">>)  \* 'A x'

====
